---- MODULE Spec2Model ----
(***************************************************************************)
(* A model of the sudoku core (lib/sudoku.ts): the grid model, the solved- *)
(* grid generator, the uniqueness counter, the puzzle carver and the       *)
(* play-aid queries.                                                       *)
(*                                                                         *)
(* Grids are functions 0..8 -> 0..8 -> 0..9, indexed as in the source      *)
(* (grid[row][col]).  Math.random() is a pseudo random generator whose     *)
(* state is the variable rng; the seed it starts from is an input.         *)
(***************************************************************************)
EXTENDS Integers, Sequences, FiniteSets, TLC

GRID_SIZE == 9
BOX_SIZE == 3

\* How many seeds of the random generator the generator runs are started from.
NumSeeds == 2

Idx == 0 .. (GRID_SIZE - 1)
BoxIdx == 0 .. (BOX_SIZE - 1)
Digits == 1 .. 9
CellValue == 0 .. 9

null == << >>

Min(a, b) == IF a <= b THEN a ELSE b

(***************************************************************************)
(* Math.random and shuffle                                                 *)
(***************************************************************************)

\* Math.floor(Math.random() * n): the generator's state s stands for the
\* value s / 65537 in [0, 1).
randomBelow(s, n) == (s * n) \div 65537

\* The state of the generator after one call of Math.random().
nextRandom(s) == (75 * s + 74) % 65537

\* The seeds a run may start from: the hard puzzle of the first exhausts the
\* positions before it reaches its target, the hard puzzle of the others
\* reaches it.
SeedList == <<37928, 12417, 63051>>
Seeds == { SeedList[k] : k \in 1 .. NumSeeds }

\* [copy[i], copy[j]] = [copy[j], copy[i]] on a 1-based sequence, i and j 0-based.
swap(copy, i, j) ==
    [copy EXCEPT ![i + 1] = copy[j + 1], ![j + 1] = copy[i + 1]]

RECURSIVE shuffleFrom(_, _, _)
\* The loop of shuffle at index i: for (i = len - 1; i > 0; i -= 1).
shuffleFrom(copy, i, s) ==
    IF i > 0
    THEN shuffleFrom(swap(copy, i, randomBelow(s, i + 1)), i - 1, nextRandom(s))
    ELSE [arr |-> copy, rng |-> s]

\* shuffle(arr) with the generator in state s: the shuffled copy and the
\* generator's state afterwards.
shuffle(arr, s) == shuffleFrom(arr, Len(arr) - 1, s)

(***************************************************************************)
(* Grid model                                                              *)
(***************************************************************************)

createEmptyGrid == [r \in Idx |-> [c \in Idx |-> 0]]

\* isSafe comparing the row's cell twice and the column's never.
isSafeRowTwice(grid, row, col, num) ==
    LET startRow == row - (row % BOX_SIZE)
        startCol == col - (col % BOX_SIZE)
    IN  /\ \A k \in Idx : grid[row][k] # num /\ grid[row][k] # num
        /\ \A r \in BoxIdx : \A c \in BoxIdx :
               grid[startRow + r][startCol + c] # num

\* isSafe with the box's first column taken from the row.
isSafeBoxColumnFromRow(grid, row, col, num) ==
    LET startRow == row - (row % BOX_SIZE)
        startCol == row - (row % BOX_SIZE)
    IN  /\ \A k \in Idx : grid[row][k] # num /\ grid[k][col] # num
        /\ \A r \in BoxIdx : \A c \in BoxIdx :
               grid[startRow + r][startCol + c] # num

isSafe(grid, row, col, num) ==
    LET startRow == row - (row % BOX_SIZE)
        startCol == col - (col % BOX_SIZE)
    IN  /\ \A i \in Idx : grid[row][i] # num /\ grid[i][col] # num
        /\ \A r \in BoxIdx : \A c \in BoxIdx :
               grid[startRow + r][startCol + c] # num

RECURSIVE findEmptyInRow(_, _, _)
\* The inner loop of findEmpty in row r, at column c.
findEmptyInRow(grid, r, c) ==
    IF c >= GRID_SIZE THEN null
    ELSE IF grid[r][c] = 0 THEN <<r, c>>
    ELSE findEmptyInRow(grid, r, c + 1)

RECURSIVE findEmptyFrom(_, _)
\* The outer loop of findEmpty at row r.
findEmptyFrom(grid, r) ==
    IF r >= GRID_SIZE THEN null
    ELSE LET found == findEmptyInRow(grid, r, 0)
         IN  IF found # null THEN found ELSE findEmptyFrom(grid, r + 1)

findEmpty(grid) == findEmptyFrom(grid, 0)

isComplete(grid) == \A r \in Idx : \A c \in Idx : grid[r][c] # 0


(***************************************************************************)
(* Play-aid queries                                                        *)
(***************************************************************************)

\* Characters are one-character strings, strings are sequences of them.
DigitChars == <<"0", "1", "2", "3", "4", "5", "6", "7", "8", "9">>

\* NaN, and a number n, as the results of parseInt.
NaN == [nan |-> TRUE, value |-> 0]
Num(n) == [nan |-> FALSE, value |-> n]

digitValue(ch) == CHOOSE d \in 0 .. 9 : DigitChars[d + 1] = ch
isDigit(ch) == \E d \in 0 .. 9 : DigitChars[d + 1] = ch

RECURSIVE toString(_)
\* String(n) for an integer n >= 0: its decimal digits.
toString(n) ==
    IF n < 10 THEN <<DigitChars[n + 1]>>
    ELSE toString(n \div 10) \o <<DigitChars[(n % 10) + 1]>>

RECURSIVE parseDigits(_, _, _)
\* The value of the digits of s from index k on, up to the first non-digit,
\* after the digits read so far, whose value is acc.
parseDigits(s, k, acc) ==
    IF k > Len(s) \/ ~isDigit(s[k]) THEN acc
    ELSE parseDigits(s, k + 1, 10 * acc + digitValue(s[k]))

\* parseInt(s, 10) for a string without sign or leading blanks.
parseInt(s) ==
    IF Len(s) = 0 \/ ~isDigit(s[1]) THEN NaN ELSE Num(parseDigits(s, 1, 0))

\* x || 0 for x a result of parseInt: NaN and 0 are falsy.
orZero(x) == IF x.nan \/ x.value = 0 THEN 0 ELSE x.value

\* A result of parseInt as a coordinate: the number, or NaN itself.
numberOf(x) == IF x.nan THEN x ELSE x.value

\* `${r},${c}`
keyOf(r, c) == toString(r) \o <<",">> \o toString(c)

\* s.split(",").map((v) => parseInt(v, 10)) for a key with one comma,
\* read as [r, c].
parseKey(s) ==
    LET comma == CHOOSE k \in 1 .. Len(s) :
                     s[k] = "," /\ \A j \in 1 .. (k - 1) : s[j] # ","
    IN  <<numberOf(parseInt(SubSeq(s, 1, comma - 1))),
          numberOf(parseInt(SubSeq(s, comma + 1, Len(s))))>>

RECURSIVE rowColPeers(_, _, _)
\* The first loop of getPeers at i: what it pushes from there on.
rowColPeers(row, col, k) ==
    IF k >= GRID_SIZE THEN << >>
    ELSE (IF k # col THEN <<<<row, k>>>> ELSE << >>)
         \o (IF k # row THEN <<<<k, col>>>> ELSE << >>)
         \o rowColPeers(row, col, k + 1)

RECURSIVE boxPeers(_, _, _)
\* The box loops of getPeers at their n-th cell (n = r * BOX_SIZE + c).
boxPeers(row, col, n) ==
    IF n >= BOX_SIZE * BOX_SIZE THEN << >>
    ELSE LET rr == (row - (row % BOX_SIZE)) + (n \div BOX_SIZE)
             cc == (col - (col % BOX_SIZE)) + (n % BOX_SIZE)
         IN  (IF rr = row /\ cc = col THEN << >> ELSE <<<<rr, cc>>>>)
             \o boxPeers(row, col, n + 1)

RECURSIVE addAll(_, _, _)
\* new Set(keys), from the k-th key on: each key is added to the set, whose
\* elements are kept in the order they were first added.
addAll(keys, k, set) ==
    IF k > Len(keys) THEN set
    ELSE addAll(keys, k + 1,
                IF \E j \in 1 .. Len(set) : set[j] = keys[k]
                THEN set
                ELSE Append(set, keys[k]))

\* unique keeping every key, repeated or not.
uniqueKeepsAll(keys) == keys

\* Array.from(new Set(keys)): the keys in the order of their first occurrence.
unique(keys) == addAll(keys, 1, << >>)

getPeers(row, col) ==
    LET peers == rowColPeers(row, col, 0) \o boxPeers(row, col, 0)
        keys == [n \in 1 .. Len(peers) |-> keyOf(peers[n][1], peers[n][2])]
        uniq == unique(keys)
    IN  [n \in 1 .. Len(uniq) |-> parseKey(uniq[n])]

\* The push loop of findConflicts over the peers.
findConflicts(grid, row, col, value) ==
    IF value = 0 THEN << >>
    ELSE SelectSeq(getPeers(row, col), LAMBDA p : grid[p[1]][p[2]] = value)

RECURSIVE candidatesFrom(_, _, _, _)
\* The loop of computeCandidates at num.
candidatesFrom(grid, row, col, num) ==
    IF num > 9 THEN << >>
    ELSE (IF isSafe(grid, row, col, num) THEN <<num>> ELSE << >>)
         \o candidatesFrom(grid, row, col, num + 1)

computeCandidates(grid, row, col) ==
    IF grid[row][col] # 0 THEN << >> ELSE candidatesFrom(grid, row, col, 1)

RECURSIVE hintInRowAnyCandidate(_, _, _)
\* hintInRow taking the first empty cell that has a candidate at all.
hintInRowAnyCandidate(grid, r, c) ==
    IF c >= GRID_SIZE THEN null
    ELSE IF grid[r][c] # 0 THEN hintInRowAnyCandidate(grid, r, c + 1)
    ELSE LET candidates == computeCandidates(grid, r, c)
         IN  IF Len(candidates) >= 1
             THEN [row |-> r, col |-> c, value |-> candidates[1]]
             ELSE hintInRowAnyCandidate(grid, r, c + 1)

RECURSIVE hintInRow(_, _, _)
\* The inner loop of findEasyHint in row r, at column c.
hintInRow(grid, r, c) ==
    IF c >= GRID_SIZE THEN null
    ELSE IF grid[r][c] # 0 THEN hintInRow(grid, r, c + 1)
    ELSE LET candidates == computeCandidates(grid, r, c)
         IN  IF Len(candidates) = 1
             THEN [row |-> r, col |-> c, value |-> candidates[1]]
             ELSE hintInRow(grid, r, c + 1)

RECURSIVE hintFrom(_, _)
\* The outer loop of findEasyHint at row r.
hintFrom(grid, r) ==
    IF r >= GRID_SIZE THEN null
    ELSE LET found == hintInRow(grid, r, 0)
         IN  IF found # null THEN found ELSE hintFrom(grid, r + 1)

findEasyHint(grid) == hintFrom(grid, 0)

\* grid.flat(): the cells, row after row.
flat(grid) ==
    [n \in 1 .. (GRID_SIZE * GRID_SIZE) |->
        grid[(n - 1) \div GRID_SIZE][(n - 1) % GRID_SIZE]]

RECURSIVE joinRangeWithCommas(_, _, _)
\* nums.join(): the separator left to its default, a comma.
joinRangeWithCommas(nums, lo, hi) ==
    IF lo > hi THEN << >>
    ELSE IF lo = hi THEN toString(nums[lo])
    ELSE LET mid == (lo + hi) \div 2
         IN  joinRangeWithCommas(nums, lo, mid) \o <<",">>
                 \o joinRangeWithCommas(nums, mid + 1, hi)

RECURSIVE joinRange(_, _, _)
\* nums.join("") for the elements lo .. hi of nums.
joinRange(nums, lo, hi) ==
    IF lo > hi THEN << >>
    ELSE IF lo = hi THEN toString(nums[lo])
    ELSE LET mid == (lo + hi) \div 2
         IN  joinRange(nums, lo, mid) \o joinRange(nums, mid + 1, hi)

serialize(grid) == LET nums == flat(grid) IN joinRange(nums, 1, Len(nums))

\* nums.slice(start, end) as a row: a function on 0 .. (its length - 1).
slice(nums, start, end) ==
    LET from == Min(start, Len(nums))
        to == Min(end, Len(nums))
    IN  [c \in 0 .. (to - from - 1) |-> nums[from + c + 1]]

\* deserialize with the end of each slice given as a length.
deserializeSliceLength(s) ==
    LET nums == [k \in 1 .. Len(s) |-> orZero(parseInt(<<s[k]>>))]
    IN  [r \in Idx |-> slice(nums, r * GRID_SIZE, GRID_SIZE)]

deserialize(s) ==
    LET nums == [k \in 1 .. Len(s) |-> orZero(parseInt(<<s[k]>>))]
    IN  [r \in Idx |-> slice(nums, r * GRID_SIZE, (r + 1) * GRID_SIZE)]

(***************************************************************************)
(* Solved-grid generator                                                   *)
(***************************************************************************)

\* The body of the seeding loop for the diagonal box at k.
seedBox(grid, k, s) ==
    LET sh == shuffle(<<1, 2, 3, 4, 5, 6, 7, 8, 9>>, s)
    IN  [grid |-> [r \in Idx |-> [c \in Idx |->
                     IF r \in k .. (k + BOX_SIZE - 1) /\ c \in k .. (k + BOX_SIZE - 1)
                     THEN sh.arr[(r - k) * BOX_SIZE + (c - k) + 1]
                     ELSE grid[r][c]]],
         rng |-> sh.rng]

\* The seeding loop, k = 0, 3, 6, on an empty grid.
seedDiagonal(s) ==
    LET b0 == seedBox(createEmptyGrid, 0, s)
        b1 == seedBox(b0.grid, BOX_SIZE, b0.rng)
    IN  seedBox(b1.grid, 2 * BOX_SIZE, b1.rng)

(***************************************************************************)
(* Puzzle carver                                                           *)
(***************************************************************************)

Difficulty == {"easy", "medium", "hard"}

difficultyToRemovals(difficulty) ==
    CASE difficulty = "easy" -> 40
      [] difficulty = "medium" -> 50
      [] difficulty = "hard" -> 56
      [] OTHER -> 45

\* positions, as the two nested loops push them.
positions == [n \in 1 .. (GRID_SIZE * GRID_SIZE) |->
                 <<(n - 1) \div GRID_SIZE, (n - 1) % GRID_SIZE>>]

\* cloneGrid returning the object it was given.
cloneGridShared(h, ref) == [heap |-> h, ref |-> ref]

\* cloneGrid(heap[ref]): a new grid object with the cells of heap[ref]; the
\* heap afterwards and the new object's reference.
cloneGrid(h, ref) ==
    LET new == Len(h) + 1
    IN  [heap |-> Append(h, [r \in Idx |-> [c \in Idx |-> h[ref][r][c]]]),
         ref |-> new]

Last(s) == s[Len(s)]
Front(s) == SubSeq(s, 1, Len(s) - 1)

VARIABLES
    pc,          \* the program's position
    rng,         \* the state of Math.random's generator
    difficulty,  \* generatePuzzle's argument
    heap,        \* the grid objects of generatePuzzle: reference -> grid
    solution,    \* reference of the solution grid (0: none yet)
    puzzle,      \* reference of the puzzle grid (0: none yet)
    copy,        \* shuffle's copy of the positions
    i,           \* shuffle's loop index
    order,       \* the shuffled positions
    pos,         \* how many positions of order the carving loop has taken
    removed,
    target,
    backup,
    working,     \* the working grid of solveGrid or countSolutions
    stack,       \* the active calls of trySolve or backtrack, outermost first
    solved,      \* trySolve's result
    solutions,   \* countSolutions' counter
    cap,
    caller,      \* who called countSolutions: "carve" or "test"
    grid,        \* the grid the consuming layer holds
    str,         \* the string the consuming layer passes to deserialize
    query,       \* the last call of findConflicts and what it returned
    selected,    \* SudokuBoard: the selected cell, or null
    notes,       \* SudokuBoard: key "r,c" -> the set of noted candidates
    mistakesOn,  \* SudokuBoard: conflicts are shown
    noteMode,    \* SudokuBoard: numbers are entered as notes
    status,      \* SudokuBoard: the status line
    saved        \* localStorage's item "sudoku:last", or null

vars == <<pc, rng, difficulty, heap, solution, puzzle, copy, i, order, pos,
          removed, target, backup, working, stack, solved, solutions, cap,
          caller, grid, str, query, selected, notes, mistakesOn, noteMode,
          status, saved>>

\* What the generator and the carver hold, and the counter leaves alone.
genVars == <<rng, difficulty, heap, solution, puzzle, copy, i, order, pos,
             removed, target, backup, solved, caller>>

\* What SudokuBoard holds besides its game and its grid.
boardVars == <<selected, notes, mistakesOn, noteMode, status, saved>>

\* What the consuming layer holds.
playVars == <<grid, str, query, boardVars>>

\* No SudokuBoard is mounted.
noBoard ==
    /\ selected = null
    /\ notes = << >>
    /\ mistakesOn = TRUE
    /\ noteMode = FALSE
    /\ status = ""
    /\ saved = null

Init ==
    /\ pc = "start"
    /\ rng \in Seeds
    /\ difficulty \in Difficulty
    /\ heap = << >>
    /\ solution = 0
    /\ puzzle = 0
    /\ copy = << >>
    /\ i = 0
    /\ order = << >>
    /\ pos = 0
    /\ removed = 0
    /\ target = 0
    /\ backup = 0
    /\ working = createEmptyGrid
    /\ stack = << >>
    /\ solved = FALSE
    /\ solutions = 0
    /\ cap = 0
    /\ caller = "carve"
    /\ grid = createEmptyGrid
    /\ str = << >>
    /\ query = null
    /\ noBoard

\* generateSolvedGrid up to its call of solveGrid: seed the diagonal boxes;
\* solveGrid clones the seeded grid into working and calls trySolve.
GenerateSolvedGrid ==
    /\ pc = "start"
    /\ LET seeded == seedDiagonal(rng)
       IN  /\ working' = seeded.grid
           /\ rng' = seeded.rng
    /\ stack' = << >>
    /\ pc' = "trySolve"
    /\ UNCHANGED <<difficulty, heap, solution, puzzle, copy, i, order, pos,
                   removed, target, backup, solved, solutions, cap>>
    /\ UNCHANGED <<caller, playVars>>

\* trySolve is entered: with no empty cell it returns true, and so does
\* every call above it; otherwise it shuffles the digits and starts its loop.
TrySolveCall ==
    /\ pc = "trySolve"
    /\ LET empty == findEmpty(working)
       IN  IF empty = null
           THEN /\ solved' = TRUE
                /\ stack' = << >>
                /\ pc' = "solveGridReturn"
                /\ UNCHANGED rng
           ELSE LET sh == shuffle(<<1, 2, 3, 4, 5, 6, 7, 8, 9>>, rng)
                IN  /\ stack' = Append(stack, [row |-> empty[1], col |-> empty[2],
                                               nums |-> sh.arr, k |-> 1])
                    /\ rng' = sh.rng
                    /\ pc' = "trySolveLoop"
                    /\ UNCHANGED solved
    /\ UNCHANGED <<difficulty, heap, solution, puzzle, copy, i, order, pos,
                   removed, target, backup, working, solutions, cap>>
    /\ UNCHANGED <<caller, playVars>>

\* The for loop of the innermost trySolve, from its k-th digit to the next
\* safe one, which it places before it calls trySolve; with no safe digit
\* left it returns false, and its caller empties its own cell and goes on
\* with its next digit.
TrySolveLoop ==
    /\ pc = "trySolveLoop"
    /\ LET f == Last(stack)
           safe == {k \in f.k .. Len(f.nums) : isSafe(working, f.row, f.col, f.nums[k])}
       IN  IF safe # {}
           THEN LET k == CHOOSE x \in safe : \A y \in safe : x <= y
                IN  /\ working' = [working EXCEPT ![f.row][f.col] = f.nums[k]]
                    /\ stack' = [stack EXCEPT ![Len(stack)].k = k]
                    /\ pc' = "trySolve"
                    /\ UNCHANGED solved
           ELSE IF Len(stack) = 1
                THEN /\ solved' = FALSE
                     /\ stack' = << >>
                     /\ pc' = "solveGridReturn"
                     /\ UNCHANGED working
                ELSE LET g == stack[Len(stack) - 1]
                     IN  /\ working' = [working EXCEPT ![g.row][g.col] = 0]
                         /\ stack' = [Front(stack) EXCEPT ![Len(stack) - 1].k = g.k + 1]
                         /\ pc' = "trySolveLoop"
                         /\ UNCHANGED solved
    /\ UNCHANGED <<rng, difficulty, heap, solution, puzzle, copy, i, order, pos,
                   removed, target, backup, solutions, cap>>
    /\ UNCHANGED <<caller, playVars>>

\* solveGrid returns to generateSolvedGrid: a failed attempt calls
\* generateSolvedGrid again; a solved grid is returned to generatePuzzle,
\* which clones it into puzzle, builds the positions and calls shuffle.
SolveGridReturn ==
    /\ pc = "solveGridReturn"
    /\ IF ~solved
       THEN /\ pc' = "start"
            /\ UNCHANGED <<heap, solution, puzzle, copy, i>>
       ELSE LET cl == cloneGrid(<<working>>, 1)
            IN  /\ heap' = cl.heap
                /\ solution' = 1
                /\ puzzle' = cl.ref
                /\ copy' = positions
                /\ i' = Len(positions) - 1
                /\ pc' = "shuffle"
    /\ UNCHANGED <<rng, difficulty, order, pos, removed, target, backup, working,
                   stack, solved, solutions, cap>>
    /\ UNCHANGED <<caller, playVars>>

\* One iteration of shuffle's loop over the positions; after the last one
\* generatePuzzle has its order, and sets removed and target.
ShuffleStep ==
    /\ pc = "shuffle"
    /\ IF i > 0
       THEN /\ copy' = swap(copy, i, randomBelow(rng, i + 1))
            /\ rng' = nextRandom(rng)
            /\ i' = i - 1
            /\ UNCHANGED <<pc, order, removed, target, pos>>
       ELSE /\ order' = copy
            /\ copy' = << >>
            /\ removed' = 0
            /\ target' = difficultyToRemovals(difficulty)
            /\ pos' = 0
            /\ pc' = "carve"
            /\ UNCHANGED <<rng, i>>
    /\ UNCHANGED <<difficulty, heap, solution, puzzle, backup, working, stack,
                   solved, solutions, cap>>
    /\ UNCHANGED <<caller, playVars>>

\* CarveStep leaving the loop only once removed is above the target.
CarveStepPastTarget ==
    /\ pc = "carve"
    /\ IF pos >= Len(order) \/ removed > target
       THEN /\ pc' = "done"
            /\ UNCHANGED <<heap, pos, backup, working, stack, solutions, cap>>
       ELSE LET r == order[pos + 1][1]
                c == order[pos + 1][2]
            IN  /\ backup' = heap[puzzle][r][c]
                /\ IF heap[puzzle][r][c] = 0
                   THEN /\ pos' = pos + 1
                        /\ UNCHANGED <<pc, heap, working, stack, solutions, cap>>
                   ELSE /\ heap' = [heap EXCEPT ![puzzle][r][c] = 0]
                        /\ working' = [heap[puzzle] EXCEPT ![r][c] = 0]
                        /\ stack' = << >>
                        /\ solutions' = 0
                        /\ cap' = 2
                        /\ pc' = "backtrack"
                        /\ UNCHANGED pos
    /\ UNCHANGED <<rng, difficulty, solution, puzzle, copy, i, order, removed,
                   target, solved>>
    /\ UNCHANGED <<caller, playVars>>

\* The head of one iteration of the carving loop: the loop ends when the
\* order is exhausted or removed has reached target; otherwise the cell is
\* zeroed and countSolutions(puzzle, 2) is called.
CarveStep ==
    /\ pc = "carve"
    /\ IF pos >= Len(order) \/ removed >= target
       THEN /\ pc' = "done"
            /\ UNCHANGED <<heap, pos, backup, working, stack, solutions, cap>>
       ELSE LET r == order[pos + 1][1]
                c == order[pos + 1][2]
            IN  /\ backup' = heap[puzzle][r][c]
                /\ IF heap[puzzle][r][c] = 0
                   THEN /\ pos' = pos + 1
                        /\ UNCHANGED <<pc, heap, working, stack, solutions, cap>>
                   ELSE /\ heap' = [heap EXCEPT ![puzzle][r][c] = 0]
                        /\ working' = [heap[puzzle] EXCEPT ![r][c] = 0]
                        /\ stack' = << >>
                        /\ solutions' = 0
                        /\ cap' = 2
                        /\ pc' = "backtrack"
                        /\ UNCHANGED pos
    /\ UNCHANGED <<rng, difficulty, solution, puzzle, copy, i, order, removed,
                   target, solved>>
    /\ UNCHANGED <<caller, playVars>>

\* CarveCheck restoring the cell only when no solution was found.
CarveCheckRestoresOnZero ==
    /\ pc = "carveCheck"
    /\ LET r == order[pos + 1][1]
           c == order[pos + 1][2]
       IN  IF solutions = 0
           THEN /\ heap' = [heap EXCEPT ![puzzle][r][c] = backup]
                /\ UNCHANGED removed
           ELSE /\ removed' = removed + 1
                /\ UNCHANGED heap
    /\ pos' = pos + 1
    /\ pc' = "carve"
    /\ UNCHANGED <<rng, difficulty, solution, puzzle, copy, i, order, target,
                   backup, working, stack, solved, solutions, cap>>
    /\ UNCHANGED <<caller, playVars>>

\* countSolutions has returned to the carving loop: the removal is kept
\* when it found exactly one solution, and restored otherwise.
CarveCheck ==
    /\ pc = "carveCheck"
    /\ LET r == order[pos + 1][1]
           c == order[pos + 1][2]
       IN  IF solutions # 1
           THEN /\ heap' = [heap EXCEPT ![puzzle][r][c] = backup]
                /\ UNCHANGED removed
           ELSE /\ removed' = removed + 1
                /\ UNCHANGED heap
    /\ pos' = pos + 1
    /\ pc' = "carve"
    /\ UNCHANGED <<rng, difficulty, solution, puzzle, copy, i, order, target,
                   backup, working, stack, solved, solutions, cap>>
    /\ UNCHANGED <<caller, playVars>>

(***************************************************************************)
(* Uniqueness counter                                                      *)
(***************************************************************************)

\* backtrack is entered: it returns at once when the cap is reached, counts
\* a solution when no cell is empty, and otherwise starts its loop at 1.
BacktrackCall ==
    /\ pc = "backtrack"
    /\ IF solutions >= cap
       THEN /\ pc' = "backtrackReturn"
            /\ UNCHANGED <<solutions, stack>>
       ELSE LET empty == findEmpty(working)
            IN  IF empty = null
                THEN /\ solutions' = solutions + 1
                     /\ pc' = "backtrackReturn"
                     /\ UNCHANGED stack
                ELSE /\ stack' = Append(stack, [row |-> empty[1], col |-> empty[2],
                                                num |-> 1])
                     /\ pc' = "backtrackLoop"
                     /\ UNCHANGED solutions
    /\ UNCHANGED <<working, cap>>
    /\ UNCHANGED <<genVars, playVars>>

\* The for loop of the innermost backtrack, from its digit num to the next
\* safe one, which it places before it calls backtrack; with no safe digit
\* left the loop ends and backtrack returns.
BacktrackLoop ==
    /\ pc = "backtrackLoop"
    /\ LET f == Last(stack)
           safe == {num \in f.num .. 9 : isSafe(working, f.row, f.col, num)}
       IN  IF safe # {}
           THEN LET num == CHOOSE x \in safe : \A y \in safe : x <= y
                IN  /\ working' = [working EXCEPT ![f.row][f.col] = num]
                    /\ stack' = [stack EXCEPT ![Len(stack)].num = num]
                    /\ pc' = "backtrack"
           ELSE /\ stack' = Front(stack)
                /\ pc' = "backtrackReturn"
                /\ UNCHANGED working
    /\ UNCHANGED <<solutions, cap>>
    /\ UNCHANGED <<genVars, playVars>>

\* BacktrackReturn returning up the stack as soon as one solution is found.
BacktrackReturnStopsAtFirst ==
    /\ pc = "backtrackReturn"
    /\ IF stack = << >>
       THEN /\ pc' = IF caller = "carve" THEN "carveCheck" ELSE "counted"
            /\ UNCHANGED <<working, stack>>
       ELSE LET f == Last(stack)
            IN  /\ working' = [working EXCEPT ![f.row][f.col] = 0]
                /\ IF solutions >= 1
                   THEN /\ stack' = Front(stack)
                        /\ pc' = "backtrackReturn"
                   ELSE /\ stack' = [stack EXCEPT ![Len(stack)].num = f.num + 1]
                        /\ pc' = "backtrackLoop"
    /\ UNCHANGED <<solutions, cap>>
    /\ UNCHANGED <<genVars, playVars>>

\* A call of backtrack has returned: its caller empties its cell, and
\* returns too when the cap is reached, or goes on with its next digit; the
\* outermost call returns solutions to the caller of countSolutions.
BacktrackReturn ==
    /\ pc = "backtrackReturn"
    /\ IF stack = << >>
       THEN /\ pc' = IF caller = "carve" THEN "carveCheck" ELSE "counted"
            /\ UNCHANGED <<working, stack>>
       ELSE LET f == Last(stack)
            IN  /\ working' = [working EXCEPT ![f.row][f.col] = 0]
                /\ IF solutions >= cap
                   THEN /\ stack' = Front(stack)
                        /\ pc' = "backtrackReturn"
                   ELSE /\ stack' = [stack EXCEPT ![Len(stack)].num = f.num + 1]
                        /\ pc' = "backtrackLoop"
    /\ UNCHANGED <<solutions, cap>>
    /\ UNCHANGED <<genVars, playVars>>

Next ==
    \/ GenerateSolvedGrid
    \/ TrySolveCall
    \/ TrySolveLoop
    \/ SolveGridReturn
    \/ ShuffleStep
    \/ CarveStep
    \/ CarveCheck
    \/ BacktrackCall
    \/ BacktrackLoop
    \/ BacktrackReturn

Spec == Init /\ [][Next]_vars

(***************************************************************************)
(* The consuming layer: the grids and strings it passes to the core        *)
(***************************************************************************)

\* The solved grid of the core's tests: row 0 is 5 3 4 6 7 8 9 1 2.
BaseRows ==
    << <<5, 3, 4, 6, 7, 8, 9, 1, 2>>, <<6, 7, 2, 1, 9, 5, 3, 4, 8>>,
       <<1, 9, 8, 3, 4, 2, 5, 6, 7>>, <<8, 5, 9, 7, 6, 1, 4, 2, 3>>,
       <<4, 2, 6, 8, 5, 3, 7, 9, 1>>, <<7, 1, 3, 9, 2, 4, 8, 5, 6>>,
       <<9, 6, 1, 5, 3, 7, 2, 8, 4>>, <<2, 8, 7, 4, 1, 9, 6, 3, 5>>,
       <<3, 4, 5, 2, 8, 6, 1, 7, 9>> >>

BaseGrid == [r \in Idx |-> [c \in Idx |-> BaseRows[r + 1][c + 1]]]

\* The cells the consuming layer sets: (0,3) (0,4) (3,3) (3,4) hold 6 7 7 6,
\* and (1,4) lies in the box of the first two.
EditCells == {<<0, 3>>, <<0, 4>>, <<1, 4>>, <<3, 3>>, <<3, 4>>}

\* How many of these cells differ from BaseGrid at most: when the queries
\* are checked on every cell, when findConflicts is called.
MaxEdits == 3
MaxQueryEdits == 1

Changed(g) == {p \in EditCells : g[p[1]][p[2]] # BaseGrid[p[1]][p[2]]}

\* The characters of the strings passed to deserialize, the positions
\* (from 1) where they vary, and the lengths the strings are cut or padded to.
Chars == {"0", "1", "2", "3", "4", "5", "6", "7", "8", "9", "x", " "}
PadChars == {"5", "x"}
CharAt == {1, 81}
Lengths == {0, 1, 9, 10, 80, 81, 82, 90}

\* The largest cap countSolutions is called with.
MaxCap == 3

idle ==
    /\ rng = 0
    /\ difficulty = "easy"
    /\ heap = << >>
    /\ solution = 0
    /\ puzzle = 0
    /\ copy = << >>
    /\ i = 0
    /\ order = << >>
    /\ pos = 0
    /\ removed = 0
    /\ target = 0
    /\ backup = 0
    /\ working = createEmptyGrid
    /\ stack = << >>
    /\ solved = FALSE
    /\ solutions = 0

coreVars == <<rng, difficulty, heap, solution, puzzle, copy, i, order, pos,
              removed, target, backup, working, stack, solved, solutions, cap,
              caller>>

\* The single-cell set operation of the consuming layer, before it calls
\* a query, with at most max of the cells it sets different from BaseGrid.
SetCell(r, c, v, max) ==
    /\ pc = "play"
    /\ query = null
    /\ v # grid[r][c]
    /\ Cardinality(Changed([grid EXCEPT ![r][c] = v])) <= max
    /\ grid' = [grid EXCEPT ![r][c] = v]
    /\ UNCHANGED <<pc, str, query, coreVars, boardVars>>

InitPlay ==
    /\ pc = "play"
    /\ idle
    /\ cap = 0
    /\ caller = "test"
    /\ grid = BaseGrid
    /\ str = << >>
    /\ query = null
    /\ noBoard

NextPlay == \E p \in EditCells : \E v \in CellValue : SetCell(p[1], p[2], v, MaxEdits)

SpecPlay == InitPlay /\ [][NextPlay]_vars

\* A call of findConflicts(grid, row, col, value), which calls getPeers.
FindConflictsCall ==
    /\ pc = "play"
    /\ query = null
    /\ \E row \in Idx : \E col \in Idx : \E value \in CellValue :
          query' = [row |-> row, col |-> col, value |-> value,
                    peers |-> getPeers(row, col),
                    conflicts |-> findConflicts(grid, row, col, value)]
    /\ UNCHANGED <<pc, grid, str, coreVars, boardVars>>

NextConflicts ==
    \/ \E p \in EditCells : \E v \in CellValue : SetCell(p[1], p[2], v, MaxQueryEdits)
    \/ FindConflictsCall

SpecConflicts == InitPlay /\ [][NextConflicts]_vars

(***************************************************************************)
(* countSolutions called on its own                                        *)
(***************************************************************************)

\* num occurs in no filled cell of the row, the column and the box of (row, col).
NoClash(g, row, col, num) ==
    \A k \in Idx :
        /\ g[row][k] # num
        /\ g[k][col] # num
        /\ g[BOX_SIZE * (row \div BOX_SIZE) + (k \div BOX_SIZE)]
            [BOX_SIZE * (col \div BOX_SIZE) + (k % BOX_SIZE)] # num

InitCount ==
    /\ pc = "given"
    /\ idle
    /\ cap \in 1 .. MaxCap
    /\ caller = "test"
    /\ grid = BaseGrid
    /\ str = << >>
    /\ query = null
    /\ noBoard

\* A given is removed from the grid.
RemoveGiven ==
    /\ pc = "given"
    /\ \E p \in EditCells :
          /\ grid[p[1]][p[2]] # 0
          /\ grid' = [grid EXCEPT ![p[1]][p[2]] = 0]
    /\ UNCHANGED <<pc, str, query, coreVars, boardVars>>

\* A given is added that clashes with no filled cell.
PlaceGiven ==
    /\ pc = "given"
    /\ \E p \in EditCells : \E d \in Digits :
          /\ grid[p[1]][p[2]] = 0
          /\ NoClash(grid, p[1], p[2], d)
          /\ grid' = [grid EXCEPT ![p[1]][p[2]] = d]
    /\ UNCHANGED <<pc, str, query, coreVars, boardVars>>

\* countSolutions(grid, cap) is called: it clones the grid and calls backtrack.
CountSolutionsCall ==
    /\ pc = "given"
    /\ working' = [r \in Idx |-> [c \in Idx |-> grid[r][c]]]
    /\ solutions' = 0
    /\ stack' = << >>
    /\ pc' = "backtrack"
    /\ UNCHANGED <<genVars, cap, playVars>>

NextCount ==
    \/ RemoveGiven
    \/ PlaceGiven
    \/ CountSolutionsCall
    \/ BacktrackCall
    \/ BacktrackLoop
    \/ BacktrackReturn

SpecCount == InitCount /\ [][NextCount]_vars

(***************************************************************************)
(* deserialize called on any string                                        *)
(***************************************************************************)

InitString ==
    /\ pc = "string"
    /\ idle
    /\ cap = 0
    /\ caller = "test"
    /\ grid = BaseGrid
    /\ str = serialize(BaseGrid)
    /\ query = null
    /\ noBoard

\* One character of the string is replaced.
SetChar ==
    /\ pc = "string"
    /\ \E k \in CharAt : \E ch \in Chars :
          /\ k <= Len(str)
          /\ str' = [str EXCEPT ![k] = ch]
    /\ UNCHANGED <<pc, grid, query, coreVars, boardVars>>

\* The string is cut, or padded with one character, to another length.
Resize ==
    /\ pc = "string"
    /\ \E n \in Lengths : \E ch \in PadChars :
          /\ n # Len(str)
          /\ str' = [k \in 1 .. n |-> IF k <= Len(str) THEN str[k] ELSE ch]
    /\ UNCHANGED <<pc, grid, query, coreVars, boardVars>>

NextString == SetChar \/ Resize

SpecString == InitString /\ [][NextString]_vars

(***************************************************************************)
(* SudokuBoard: the component that holds a game and the player's grid      *)
(***************************************************************************)

\* The solution and the puzzle of a game generatePuzzle("easy") returns.
GameSolutionRows ==
    << <<3, 1, 5, 8, 6, 9, 2, 7, 4>>, <<4, 7, 8, 3, 2, 5, 1, 6, 9>>,
       <<6, 9, 2, 7, 4, 1, 5, 3, 8>>, <<7, 8, 6, 9, 5, 4, 3, 2, 1>>,
       <<5, 3, 1, 2, 8, 6, 9, 4, 7>>, <<2, 4, 9, 1, 3, 7, 8, 5, 6>>,
       <<1, 2, 7, 4, 9, 3, 6, 8, 5>>, <<9, 5, 3, 6, 7, 8, 4, 1, 2>>,
       <<8, 6, 4, 5, 1, 2, 7, 9, 3>> >>

GamePuzzleRows ==
    << <<3, 0, 0, 0, 0, 9, 2, 0, 0>>, <<0, 0, 8, 0, 2, 5, 0, 6, 0>>,
       <<0, 9, 2, 0, 4, 1, 5, 3, 8>>, <<0, 0, 0, 9, 5, 0, 3, 0, 1>>,
       <<0, 0, 0, 0, 0, 6, 0, 4, 0>>, <<2, 4, 0, 0, 0, 7, 0, 0, 6>>,
       <<1, 0, 0, 4, 0, 3, 0, 8, 0>>, <<0, 5, 3, 6, 7, 0, 4, 1, 2>>,
       <<0, 6, 4, 5, 1, 0, 7, 9, 0>> >>

GameSolution == [r \in Idx |-> [c \in Idx |-> GameSolutionRows[r + 1][c + 1]]]
GamePuzzle == [r \in Idx |-> [c \in Idx |-> GamePuzzleRows[r + 1][c + 1]]]

\* The cells the player had not filled yet when the game was saved: the
\* other empty cells of the puzzle hold the solution's digits.
OpenCells == {<<0, 1>>, <<0, 2>>}

GameGrid ==
    [r \in Idx |-> [c \in Idx |->
        IF <<r, c>> \in OpenCells THEN 0 ELSE GameSolution[r][c]]]

\* The cells the player selects: the open cells and a given one; the
\* numbers the player enters; and how many candidates are noted at most.
SelectCells == OpenCells \cup {<<0, 0>>}
PadDigits == {1, 5}
MaxNotes == 1

\* The payload the component saves: JSON.stringify of these fields.
payload(g, puzzleGrid, solutionGrid, d, m, n) ==
    [grid |-> serialize(g), puzzle |-> serialize(puzzleGrid),
     solution |-> serialize(solutionGrid), difficulty |-> d,
     mistakesOn |-> m, noteMode |-> n]

\* The saved games a SudokuBoard is mounted with.
SavedGames ==
    {payload(GameGrid, GamePuzzle, GameSolution, "easy", m, n) :
        m \in BOOLEAN, n \in BOOLEAN}

\* s.match(/.{1,9}/g)!.map((row) => row.split("").map((n) =>
\* parseInt(n, 10) || 0)) for a string that is not empty.
parseRows(s) ==
    LET rows == (Len(s) + GRID_SIZE - 1) \div GRID_SIZE
    IN  [r \in 0 .. (rows - 1) |->
            [c \in 0 .. (Min(GRID_SIZE, Len(s) - r * GRID_SIZE) - 1) |->
                orZero(parseInt(<<s[r * GRID_SIZE + c + 1]>>))]]

\* The keys of the cells the puzzle gives.
givenCells ==
    {keyOf(p[1], p[2]) : p \in {q \in Idx \X Idx : heap[puzzle][q[1]][q[2]] # 0}}

\* The component's isComplete of a grid.
isCompleteMemo(g) == \A r \in Idx : \A c \in Idx : g[r][c] # 0

\* The status the completion effect sets for a complete grid.
completeStatus(g) ==
    IF serialize(g) = serialize(heap[solution])
    THEN "Great job! You solved it!"
    ELSE "Not quite yet. There are mistakes-keep trying!"

\* How many candidates the notes hold.
noteCount(nts) ==
    Cardinality({<<k, n>> \in (DOMAIN nts) \X Digits : n \in nts[k]})

\* { ...old, [k]: set }
withKey(old, k, set) ==
    [x \in (DOMAIN old) \cup {k} |-> IF x = k THEN set ELSE old[x]]

\* copy = { ...old }; delete copy[k]
withoutKey(old, k) == [x \in (DOMAIN old) \ {k} |-> old[x]]

\* A SudokuBoard has been mounted with a saved game: the game and the grid
\* are restored from it, and the restored state is saved again.
InitBoard ==
    \E sv \in SavedGames :
        /\ pc = "board"
        /\ rng = 0
        /\ difficulty = "easy"
        /\ heap = <<parseRows(sv.solution), parseRows(sv.puzzle)>>
        /\ solution = 1
        /\ puzzle = 2
        /\ copy = << >>
        /\ i = 0
        /\ order = << >>
        /\ pos = 0
        /\ removed = 0
        /\ target = 0
        /\ backup = 0
        /\ working = createEmptyGrid
        /\ stack = << >>
        /\ solved = FALSE
        /\ solutions = 0
        /\ cap = 0
        /\ caller = "test"
        /\ grid = parseRows(sv.grid)
        /\ str = << >>
        /\ query = null
        /\ selected = null
        /\ notes = << >>
        /\ mistakesOn = sv.mistakesOn
        /\ noteMode = sv.noteMode
        /\ status = "Welcome back! Continue your game."
        /\ saved = payload(parseRows(sv.grid), parseRows(sv.puzzle),
                           parseRows(sv.solution), "easy", sv.mistakesOn,
                           sv.noteMode)

\* The state updates of a handler are committed and the component renders:
\* the completion effect runs when the grid was set and is complete, and
\* the game is saved when the grid was set or a mode has changed.
commit(g, gridSet, sel, nts, m, n, st) ==
    /\ noteCount(nts) <= MaxNotes
    /\ grid' = g
    /\ selected' = sel
    /\ notes' = nts
    /\ mistakesOn' = m
    /\ noteMode' = n
    /\ status' = IF gridSet /\ isCompleteMemo(g) THEN completeStatus(g) ELSE st
    /\ saved' = IF gridSet \/ m # mistakesOn \/ n # noteMode
                THEN payload(g, heap[puzzle], heap[solution], difficulty, m, n)
                ELSE saved
    /\ UNCHANGED <<pc, str, query, coreVars>>

\* What setNumber(value) of the current render does: it reads selected,
\* givenCells and noteMode as this render has them.
setNumber(value) ==
    IF selected = null
    THEN [set |-> FALSE, grid |-> grid, notes |-> notes]
    ELSE LET row == selected.row
             col == selected.col
             k == keyOf(row, col)
         IN  IF k \in givenCells
             THEN [set |-> FALSE, grid |-> grid, notes |-> notes]
             ELSE IF noteMode
             THEN LET old == IF k \in DOMAIN notes THEN notes[k] ELSE {}
                      set == IF value \in old THEN old \ {value}
                                              ELSE old \cup {value}
                  IN  [set |-> TRUE, grid |-> grid, notes |-> withKey(notes, k, set)]
             ELSE [set |-> TRUE, grid |-> [grid EXCEPT ![row][col] = value],
                   notes |-> withoutKey(notes, k)]

HandleCellSelect(row, col) ==
    /\ pc = "board"
    /\ commit(grid, FALSE, [row |-> row, col |-> col], notes, mistakesOn,
              noteMode, status)

\* A number of the pad is pressed.
SetNumber(value) ==
    /\ pc = "board"
    /\ LET u == setNumber(value)
       IN  commit(u.grid, u.set, selected, u.notes, mistakesOn, noteMode, status)

Erase ==
    /\ pc = "board"
    /\ IF selected = null \/ keyOf(selected.row, selected.col) \in givenCells
       THEN commit(grid, FALSE, selected, notes, mistakesOn, noteMode, status)
       ELSE commit([grid EXCEPT ![selected.row][selected.col] = 0], TRUE,
                   selected,
                   withoutKey(notes, keyOf(selected.row, selected.col)),
                   mistakesOn, noteMode, status)

RECURSIVE revealInRow(_, _, _)
\* The inner loop of hint's fallback in row r, at column c.
revealInRow(g, r, c) ==
    IF c >= 9 THEN null
    ELSE IF g[r][c] = 0 THEN [row |-> r, col |-> c]
    ELSE revealInRow(g, r, c + 1)

RECURSIVE revealFrom(_, _)
\* The outer loop of hint's fallback at row r.
revealFrom(g, r) ==
    IF r >= 9 THEN null
    ELSE LET found == revealInRow(g, r, 0)
         IN  IF found # null THEN found ELSE revealFrom(g, r + 1)

\* Hint is pressed: the hinted cell is selected, and setNumber of the
\* current render is called with the hinted value.
Hint ==
    /\ pc = "board"
    /\ LET easy == findEasyHint(grid)
       IN  IF easy # null
           THEN LET u == setNumber(easy.value)
                IN  commit(u.grid, u.set, [row |-> easy.row, col |-> easy.col],
                           u.notes, mistakesOn, noteMode,
                           "Hint used: a cell had only one choice.")
           ELSE LET cell == revealFrom(grid, 0)
                IN  IF cell = null
                    THEN commit(grid, FALSE, selected, notes, mistakesOn,
                                noteMode, status)
                    ELSE LET u == setNumber(heap[solution][cell.row][cell.col])
                         IN  commit(u.grid, u.set, cell, u.notes, mistakesOn,
                                    noteMode, "Hint used: revealed a number.")

ToggleNotes ==
    /\ pc = "board"
    /\ commit(grid, FALSE, selected, notes, mistakesOn, ~noteMode, status)

ToggleMistakes ==
    /\ pc = "board"
    /\ commit(grid, FALSE, selected, notes, ~mistakesOn, noteMode, status)

NextBoard ==
    \/ \E p \in SelectCells : HandleCellSelect(p[1], p[2])
    \/ \E value \in PadDigits : SetNumber(value)
    \/ Erase
    \/ Hint
    \/ ToggleNotes
    \/ ToggleMistakes

SpecBoard == InitBoard /\ [][NextBoard]_vars

(***************************************************************************)
(* Properties of generatePuzzle                                            *)
(***************************************************************************)

RECURSIVE Completions(_)
\* The complete grids that extend g cell by cell with digits that clash with
\* no filled cell: the completions of g, when its filled cells are consistent.
Completions(g) ==
    LET empties == {p \in Idx \X Idx : g[p[1]][p[2]] = 0}
    IN  IF empties = {} THEN {g}
        ELSE LET p == CHOOSE q \in empties : TRUE
             IN  UNION {Completions([g EXCEPT ![p[1]][p[2]] = d]) :
                           d \in {d \in Digits : NoClash(g, p[1], p[2], d)}}

\* Every row, every column and every box of g holds each digit 1-9 once.
IsSolved(g) ==
    /\ \A r \in Idx : {g[r][c] : c \in Idx} = Digits
    /\ \A c \in Idx : {g[r][c] : r \in Idx} = Digits
    /\ \A br \in BoxIdx : \A bc \in BoxIdx :
          {g[BOX_SIZE * br + r][BOX_SIZE * bc + c] : r \in BoxIdx, c \in BoxIdx} = Digits

Zeros(g) == {p \in Idx \X Idx : g[p[1]][p[2]] = 0}

\* The carving loop is at the head of an iteration, or has ended.
AtLoopHead == pc \in {"carve", "done"}

\* C1: after every iteration of the carving loop, and in the puzzle that
\* generatePuzzle returns, the puzzle has exactly one completion.
C1_UniqueCompletion ==
    AtLoopHead => Cardinality(Completions(heap[puzzle])) = 1

\* C1 witness: generatePuzzle has returned a puzzle after it kept some
\* removals and restored others.
C1_Witness ==
    /\ pc = "done"
    /\ removed >= 40
    /\ pos > removed
    /\ Cardinality(Zeros(heap[puzzle])) = removed

\* C2: in the pair generatePuzzle returns (and at the head of every
\* iteration) every nonzero puzzle cell equals the solution cell, the zero
\* cells of the puzzle are as many as removed, removed is at most the target
\* of the difficulty (40, 50, 56), and no cell of the solution is zero.
C2_PuzzleIsSubsetOfSolution ==
    AtLoopHead =>
        /\ \A r \in Idx : \A c \in Idx :
              heap[puzzle][r][c] # 0 => heap[puzzle][r][c] = heap[solution][r][c]
        /\ Cardinality(Zeros(heap[puzzle])) = removed
        /\ removed <= target
        /\ target = (CASE difficulty = "easy" -> 40
                       [] difficulty = "medium" -> 50
                       [] difficulty = "hard" -> 56)
        /\ Zeros(heap[solution]) = {}

\* C2 witness: a hard puzzle is returned with all of its 56 cells removed.
C2_Witness ==
    /\ pc = "done"
    /\ difficulty = "hard"
    /\ removed = 56
    /\ Cardinality(Zeros(heap[puzzle])) = 56

\* generateSolvedGrid has returned to generatePuzzle.
Returned == pc \notin {"start", "trySolve", "trySolveLoop", "solveGridReturn"}

\* C3: whenever generateSolvedGrid has returned, trySolve had succeeded and
\* the solution is complete and valid; and solveGrid hands a failed attempt
\* to nobody but generateSolvedGrid, which starts again from an empty grid.
C3_SolutionIsValid ==
    /\ Returned => solved /\ solution # 0 /\ IsSolved(heap[solution])
    /\ (pc = "solveGridReturn" /\ solved) => IsSolved(working)
    /\ (pc = "solveGridReturn" /\ ~solved) => solution = 0 /\ heap = << >>

\* C3 witness: generatePuzzle has returned its solution, which trySolve
\* completed from the seeded diagonal boxes.
C3_Witness ==
    /\ pc = "done"
    /\ solved
    /\ IsSolved(heap[solution])

(***************************************************************************)
(* Properties of countSolutions                                            *)
(***************************************************************************)

\* No filled cell of g holds a digit that another cell of its row, its
\* column or its box holds.
Consistent(g) ==
    \A p \in Idx \X Idx :
        g[p[1]][p[2]] # 0 =>
            NoClash([g EXCEPT ![p[1]][p[2]] = 0], p[1], p[2], g[p[1]][p[2]])

\* C4: on a grid whose filled cells are consistent and for a cap >= 1,
\* countSolutions(grid, cap) returns the smaller of cap and the number of
\* complete valid grids that extend the grid: 0 when there is none, and
\* never more than cap.
C4_CountIsMinOfCompletionsAndCap ==
    (pc = "counted" /\ Consistent(grid) /\ cap >= 1) =>
        /\ solutions = Min(Cardinality(Completions(grid)), cap)
        /\ solutions <= cap
        /\ Completions(grid) = {} => solutions = 0

\* C4 witness: countSolutions has returned its cap on a grid that has more
\* completions than that.
C4_Witness ==
    /\ pc = "counted"
    /\ Consistent(grid)
    /\ Cardinality(Completions(grid)) > cap
    /\ solutions = cap

(***************************************************************************)
(* Properties of the play-aid queries                                      *)
(***************************************************************************)

\* The value a character stands for in a serialized grid.
CharValue(ch) ==
    CASE ch = "1" -> 1 [] ch = "2" -> 2 [] ch = "3" -> 3
      [] ch = "4" -> 4 [] ch = "5" -> 5 [] ch = "6" -> 6
      [] ch = "7" -> 7 [] ch = "8" -> 8 [] ch = "9" -> 9
      [] OTHER -> 0

\* C5: deserialize(serialize(grid)) is the grid, cell for cell, and
\* serialize(grid) has 81 characters, the cells' digits in row-major order.
C5_RoundTrip ==
    pc = "play" =>
        LET s == serialize(grid)
        IN  /\ Len(s) = GRID_SIZE * GRID_SIZE
            /\ \A r \in Idx : \A c \in Idx :
                  /\ s[GRID_SIZE * r + c + 1] \in {"0", "1", "2", "3", "4",
                                                  "5", "6", "7", "8", "9"}
                  /\ CharValue(s[GRID_SIZE * r + c + 1]) = grid[r][c]
            /\ deserialize(s) = grid

\* C5 witness: a grid with an empty cell and a changed digit has made the
\* round trip.
C5_Witness ==
    /\ pc = "play"
    /\ grid[0][3] = 0
    /\ grid[1][4] = 6
    /\ deserialize(serialize(grid)) = grid
    /\ deserialize(serialize(grid)) # BaseGrid

\* How many cells row r of deserialize(s) has for a string of n characters.
RowLength(n, r) ==
    IF n >= (r + 1) * GRID_SIZE THEN GRID_SIZE
    ELSE IF n <= r * GRID_SIZE THEN 0
    ELSE n - r * GRID_SIZE

\* C6, as claimed: for a string of any length and any characters,
\* deserialize returns a 9x9 grid whose cell (r, c) is the value of the
\* character at index 9r + c when it is a digit, and 0 when it is not.
C6_AlwaysNineByNine ==
    pc = "string" =>
        LET g == deserialize(str)
        IN  /\ DOMAIN g = Idx
            /\ \A r \in Idx :
                  /\ DOMAIN g[r] = Idx
                  /\ \A c \in Idx : g[r][c] = CharValue(str[GRID_SIZE * r + c + 1])

\* C6, amended: for a string of any length and any characters, deserialize
\* returns 9 rows; row r holds the cells of the characters at the indexes
\* 9r .. 9r + 8 that the string has, each the value of its character when it
\* is a digit and 0 when it is not; so the rows are all 9 cells long exactly
\* when the string has 81 characters or more, and characters from index 81
\* on are ignored.
C6_DeserializeIsLenient ==
    pc = "string" =>
        LET g == deserialize(str)
        IN  /\ DOMAIN g = Idx
            /\ \A r \in Idx :
                  /\ DOMAIN g[r] = 0 .. (RowLength(Len(str), r) - 1)
                  /\ \A c \in DOMAIN g[r] :
                        /\ g[r][c] \in CellValue
                        /\ g[r][c] = CharValue(str[GRID_SIZE * r + c + 1])
            /\ Len(str) >= GRID_SIZE * GRID_SIZE <=> \A r \in Idx : DOMAIN g[r] = Idx

\* C6 witness: a string of 80 characters with a character that is no digit
\* has been deserialized: the cell of that character is 0, and the last row
\* has 8 cells.
C6_Witness ==
    /\ pc = "string"
    /\ Len(str) = GRID_SIZE * GRID_SIZE - 1
    /\ str[1] = "x"
    /\ deserialize(str)[0][0] = 0
    /\ DOMAIN deserialize(str)[GRID_SIZE - 1] = 0 .. (GRID_SIZE - 2)

\* The cells of the row, the column and the box of each cell, itself included.
Scopes ==
    [row \in Idx |-> [col \in Idx |->
        {p \in Idx \X Idx :
            \/ p[1] = row
            \/ p[2] = col
            \/ p[1] \div BOX_SIZE = row \div BOX_SIZE
                  /\ p[2] \div BOX_SIZE = col \div BOX_SIZE}]]

Scope(row, col) == Scopes[row][col]

\* C7: isSafe(grid, row, col, num) is false exactly when num occurs in the
\* row, the column or the box of (row, col), the cell itself included; so it
\* is false for the digit a filled cell holds.
C7_IsSafeIffAbsentFromScope ==
    pc = "play" =>
        \A row \in Idx : \A col \in Idx :
            /\ LET held == {grid[p[1]][p[2]] : p \in Scope(row, col)}
               IN  \A num \in Digits : isSafe(grid, row, col, num) <=> num \notin held
            /\ grid[row][col] \in Digits => ~isSafe(grid, row, col, grid[row][col])

\* C7 witness: 6 is not safe at the empty cell (0, 3) because of its box
\* alone: neither its row nor its column holds a 6.
C7_Witness ==
    /\ pc = "play"
    /\ grid[0][3] = 0
    /\ grid[1][4] = 6
    /\ \A k \in Idx : grid[0][k] # 6 /\ grid[k][3] # 6
    /\ ~isSafe(grid, 0, 3, 6)

\* The digits that are safe at (r, c).
SafeDigits(g, r, c) == {d \in Digits : isSafe(g, r, c, d)}

\* The empty cells that have exactly one safe digit.
NakedSingles(g) ==
    {p \in Idx \X Idx : g[p[1]][p[2]] = 0 /\ Cardinality(SafeDigits(g, p[1], p[2])) = 1}

\* C8: findEasyHint returns the first empty cell in row-major order whose
\* set of safe digits is a singleton, with that digit, and returns none
\* exactly when no empty cell has exactly one safe digit; it never returns a
\* filled cell.
C8_HintIsFirstNakedSingle ==
    pc = "play" =>
        LET h == findEasyHint(grid)
            singles == NakedSingles(grid)
        IN  /\ h = null <=> singles = {}
            /\ h # null =>
                  /\ <<h.row, h.col>> \in singles
                  /\ grid[h.row][h.col] = 0
                  /\ SafeDigits(grid, h.row, h.col) = {h.value}
                  /\ \A p \in singles :
                        GRID_SIZE * h.row + h.col <= GRID_SIZE * p[1] + p[2]

\* C8 witness: the hint is not the first empty cell, which has two safe
\* digits, but a later one.
C8_Witness ==
    /\ pc = "play"
    /\ grid[0][3] = 0
    /\ Cardinality(SafeDigits(grid, 0, 3)) = 2
    /\ findEasyHint(grid) = [row |-> 0, col |-> 4, value |-> 7]

\* C9: getPeers(row, col) returns 20 cells, pairwise distinct and none of
\* them (row, col): the other cells of its row, its column and its box; and
\* findConflicts(grid, row, col, value) returns no cell when value is 0, and
\* otherwise the peers whose cell holds value, each once.
C9_PeersAndConflicts ==
    query # null =>
        LET peers == query.peers
            conflicts == query.conflicts
        IN  /\ Len(peers) = 20
            /\ \A m \in 1 .. Len(peers) : \A n \in 1 .. Len(peers) :
                  m # n => peers[m] # peers[n]
            /\ \A n \in 1 .. Len(peers) : peers[n] # <<query.row, query.col>>
            /\ {peers[n] : n \in 1 .. Len(peers)}
                  = Scope(query.row, query.col) \ {<<query.row, query.col>>}
            /\ query.value = 0 => conflicts = << >>
            /\ query.value # 0 =>
                  /\ {conflicts[n] : n \in 1 .. Len(conflicts)}
                        = {p \in Scope(query.row, query.col) \ {<<query.row, query.col>>} :
                              grid[p[1]][p[2]] = query.value}
                  /\ \A m \in 1 .. Len(conflicts) : \A n \in 1 .. Len(conflicts) :
                        m # n => conflicts[m] # conflicts[n]

\* C9 witness: findConflicts has returned two peers, one of them in the
\* box as well as in the column of the cell.
C9_Witness ==
    /\ query # null
    /\ query.row = 0
    /\ query.col = 0
    /\ query.value = 6
    /\ Len(query.conflicts) = 2
    /\ \E n \in 1 .. 2 : query.conflicts[n] = <<1, 0>>

(***************************************************************************)
(* Termination of the carving loop                                         *)
(***************************************************************************)

\* generatePuzzle is in its carving loop or has left it.
InCarving == pc \in {"carve", "backtrack", "backtrackLoop", "backtrackReturn",
                    "carveCheck", "done"}

\* The loop takes its positions from a list of the 81 cells, each once, and
\* has taken at most 81 of them; it has ended either with removed at the
\* target or with every position taken and fewer cells removed.
CarvingBounded ==
    InCarving =>
        /\ Len(order) = GRID_SIZE * GRID_SIZE
        /\ {order[n] : n \in 1 .. Len(order)} = Idx \X Idx
        /\ pos <= Len(order)
        /\ removed <= pos
        /\ pc # "done" => ENABLED Next
        /\ pc = "done" =>
              \/ removed = target
              \/ pos = Len(order) /\ removed < target

\* A step of the loop takes the next position or none, never an earlier
\* one; an iteration whose removal was counted ends by taking the next; and
\* at the head of an iteration with removed at the target, or with no
\* position left, the loop ends.
CarvingStep ==
    /\ pos' = pos \/ pos' = pos + 1
    /\ pc = "carveCheck" => pos' = pos + 1 /\ pc' = "carve"
    /\ (pc = "carve" /\ (removed >= target \/ pos >= Len(order))) =>
          pc' = "done" /\ heap' = heap /\ removed' = removed
    /\ (pc = "carve" /\ removed < target /\ pos < Len(order)) =>
          pc' # "done" /\ heap'[puzzle][order[pos + 1][1]][order[pos + 1][2]] = 0

\* C10: the carving loop ends after at most 81 iterations: it visits each
\* position of the shuffled order at most once, stops as soon as removed
\* equals target, and ends with removed = target or with every position
\* tried and fewer than target cells removed.
C10_CarvingTerminates ==
    /\ []CarvingBounded
    /\ [][CarvingStep]_vars

\* C10 witness: the loop has ended with all 81 positions tried and fewer
\* cells removed than the target.
C10_Witness ==
    /\ pc = "done"
    /\ pos = GRID_SIZE * GRID_SIZE
    /\ removed < target

(***************************************************************************)
(* Properties of SudokuBoard                                               *)
(***************************************************************************)

\* The cell a hint is about and its value: the cell and the value of
\* findEasyHint, or else the first empty cell in row-major order with the
\* solution's value; null when no cell is empty.
HintedCell ==
    LET easy == findEasyHint(grid)
    IN  IF easy # null THEN easy
        ELSE IF Zeros(grid) = {} THEN null
        ELSE LET p == CHOOSE q \in Zeros(grid) :
                          \A z \in Zeros(grid) :
                              GRID_SIZE * q[1] + q[2] <= GRID_SIZE * z[1] + z[2]
             IN  [row |-> p[1], col |-> p[2],
                  value |-> heap[solution][p[1]][p[2]]]

\* The grid after the step holds the hinted value at the hinted cell and is
\* unchanged elsewhere: so the cell selected before is not written, unless it
\* is the hinted cell.
HintedCellWritten ==
    LET h == HintedCell
    IN  h # null =>
            /\ grid'[h.row][h.col] = h.value
            /\ \A r \in Idx : \A c \in Idx :
                  <<r, c>> # <<h.row, h.col>> => grid'[r][c] = grid[r][c]
            /\ (selected # null /\ <<selected.row, selected.col>> # <<h.row, h.col>>) =>
                  grid'[selected.row][selected.col] = grid[selected.row][selected.col]

\* C11: with note mode off, after any selections, number entries, erases and
\* toggles, pressing Hint writes the hinted value into the hinted cell (the
\* cell and value of findEasyHint, or else the first empty cell with the
\* solution's value) and changes no other cell of the grid; the cell selected
\* before the hint is not written unless it is the hinted cell.
C11_HintWritesHintedCell ==
    [][(pc = "board" /\ ~noteMode /\ Hint) => HintedCellWritten]_vars

====
